---- MODULE Spec2Model ----
(***************************************************************************)
(* Model of src/youtube-live.py: the StreamProcessManager registry (one    *)
(* streamlink process per url, guarded by a non-reentrant threading.Lock), *)
(* the /stream handler with its delivery generator and on-close cleanup,   *)
(* and the /processes handler.                                             *)
(*                                                                         *)
(* Every request is served by a thread of its own; the thread is named by  *)
(* the request's arrival number.  Steps that touch only a thread's locals  *)
(* are merged with the next step that touches shared state.  A handler     *)
(* that answers with an error or with the processes page sits at "answer"  *)
(* with what it answered until the server has sent it (Return); a finished *)
(* thread keeps nothing.  In Spec the data that generate() reads is not    *)
(* told apart; PumpSpec numbers the chunks read from each pipe.            *)
(***************************************************************************)
EXTENDS Integers, Sequences, FiniteSets, TLC

VARIABLES
    processes,  \* self.processes: the dict, as the sequence of its entries in insertion order
    lock,       \* self.lock: the thread holding it, or 0
    procs,      \* every subprocess.Popen object created by run_streamlink, by handle 1, 2, ...
    now,        \* the clock read by datetime.now()
    th,         \* per request thread: its position in the handler and its locals
    reqs        \* number of requests accepted so far

vars == <<processes, lock, procs, now, th, reqs>>

\* ---------------------------------------------------------------- bounds
MaxProcs == 2       \* processes launched in one run
MaxRequests == 3    \* requests (threads) in one run
MaxChunks == 2      \* chunks read from one process's pipe in one run
MaxPumps == 2       \* requests in one run in which the chunks are told apart

Threads == 1..MaxRequests
Pumps == 1..MaxPumps
Urls == {"A", "B"}
Qualities == {"best", "720p"}
Clients == {<<"10.0.0.1", "vlc">>, <<"10.0.0.2", "mpv">>}   \* (remote_addr, User-Agent)
NoParam == "<None>"              \* request.args.get('url') when the parameter is missing
Parsed == "<parsed>"             \* the raw parameter once url has been computed from it
RawUrls == {NoParam, "", "A", "%41", "B"}
FormActions == {"kill", "kill_all", "other"}
FormUrls == {"", "A", "B"}       \* request.form.get('url'); None and '' are both falsy
Probes == {"ok", "resolved", "info_error", "no_streams"}

\* ---------------------------------------------------------------- helpers
\* urllib.parse.unquote on the raw urls of the model (None is handled by the caller)
Unquote(raw) == IF raw = "%41" THEN "A" ELSE raw

\* dict operations on self.processes
Has(d, u) == \E i \in 1..Len(d) : d[i].url = u
Entry(d, u) == d[CHOOSE i \in 1..Len(d) : d[i].url = u]
Keys(d) == [i \in 1..Len(d) |-> d[i].url]
DictSet(d, e) ==
    IF Has(d, e.url)
    THEN [i \in 1..Len(d) |-> IF d[i].url = e.url THEN e ELSE d[i]]
    ELSE Append(d, e)
DictDelKeeps(d, u) == d
DictDel(d, u) == SelectSeq(d, LAMBDA e : e.url # u)

\* Popen.poll() is None
Running(p) == procs[p].end = "running"

\* get_process, line 37: existing_process.poll() is not None
StaleAlways(e) == TRUE
StaleNever(e) == FALSE
Stale(e) == ~Running(e.process)

\* get_process, line 43: the caller joins the session it found
JoinRequalify(e, c, q) == [e EXCEPT !.clients = @ \cup {c}, !.quality = q]
Join(e, c, q) == [e EXCEPT !.clients = @ \cup {c}]

\* run_streamlink, lines 58-63: the entry stored for a new process
NewSession(u, p, q, c, time) ==
    [url |-> u, process |-> p, quality |-> q, clients |-> {c}, start_time |-> time]

\* threading.Lock.acquire by thread t can succeed (the lock is not reentrant)
CanLockAlways(t) == TRUE
CanLock(t) == lock = 0

\* the locals of a request thread that has not started
Fresh ==
    [pc |-> "idle", op |-> "none", raw |-> "", url |-> "", quality |-> "",
     client |-> <<>>, process |-> 0, ret |-> "none", todo |-> <<>>,
     status |-> 0, json |-> FALSE, calls |-> 0, cause |-> "none", got |-> {},
     listing |-> <<>>, action |-> ""]

\* the handler returns its answer; its other locals are dead
RespondSwallow(r, status, json) ==
    [Fresh EXCEPT !.pc = "answer", !.op = r.op, !.raw = r.raw, !.ret = r.ret,
                  !.calls = r.calls, !.cause = r.cause,
                  !.status = 200, !.json = json]
Respond(r, status, json) ==
    [Fresh EXCEPT !.pc = "answer", !.op = r.op, !.raw = r.raw, !.ret = r.ret,
                  !.calls = r.calls, !.cause = r.cause,
                  !.status = status, !.json = json]

\* a request thread that has ended
Done == [Fresh EXCEPT !.pc = "done"]

\* get_process_info, lines 108-122: the client tuples as dicts (a new list,
\* in the set's own order); line 129: the start time as an ISO 8601 string
FormatClients(cs) == {[ip |-> c[1], user_agent |-> c[2]] : c \in cs}
IsoFormat(time) == <<"iso", time>>

\* get_process_info(): a new list with one new dict per entry, in dict order
ProcessInfoAllRunning ==
    [i \in 1..Len(processes) |->
        [url |-> processes[i].url,
         quality |-> processes[i].quality,
         clients |-> FormatClients(processes[i].clients),
         running |-> TRUE,
         start_time |-> IsoFormat(processes[i].start_time)]]
ProcessInfo ==
    [i \in 1..Len(processes) |->
        [url |-> processes[i].url,
         quality |-> processes[i].quality,
         clients |-> FormatClients(processes[i].clients),
         running |-> Running(processes[i].process),
         start_time |-> IsoFormat(processes[i].start_time)]]

\* the response is closed and runs cleanup(), lines 221-226, which calls
\* remove_client; process stays bound in the closure of generate()
OnCloseNoCleanup(r) == [r EXCEPT !.pc = "on_close"]
OnClose(r) == [r EXCEPT !.pc = "on_close", !.calls = @ + 1]

\* stream(), lines 194-228, after get_process has returned process p: the
\* response is built and returned, and the server either starts iterating
\* generate(), which enters its loop (lines 202-207), or closes the response unstarted:
\* closing an unstarted generator runs none of its code, and cleanup() runs
Served(r, p, started) ==
    IF started
    THEN [r EXCEPT !.pc = "pumping", !.process = p, !.quality = "", !.status = 200]
    ELSE OnClose([r EXCEPT !.cause = "unstarted", !.process = p, !.quality = "",
                           !.status = 200])

\* ---------------------------------------------------------------- initial state
Init ==
    /\ processes = <<>>
    /\ lock = 0
    /\ procs = <<>>
    /\ now = 0
    /\ th = [t \in Threads |-> Fresh]
    /\ reqs = 0

\* the next request arrives and is given thread t
Arrives(t) ==
    /\ th[t].pc = "idle"
    /\ t = reqs + 1
    /\ reqs' = reqs + 1

\* ---------------------------------------------------------------- GET /stream
\* stream(), lines 146-191: parameter parsing and the probing of the source,
\* which touch no shared state.  probe is what streamlink / youtube-dl answer.
Stream(t) ==
    /\ Arrives(t)
    /\ \E raw \in RawUrls :
       LET r == [Fresh EXCEPT !.op = "stream", !.raw = raw] IN
       IF raw = NoParam
       THEN \* unquote(None) raises TypeError before the try block: Flask answers 500 (HTML)
            th' = [th EXCEPT ![t] = Respond(r, 500, FALSE)]
       ELSE IF Unquote(raw) = ""
       THEN th' = [th EXCEPT ![t] = Respond(r, 400, TRUE)]
       ELSE \E probe \in Probes :
            IF probe = "info_error"
            THEN th' = [th EXCEPT ![t] = Respond([r EXCEPT !.raw = Parsed], 500, TRUE)]
            ELSE IF probe = "no_streams"
            THEN th' = [th EXCEPT ![t] = Respond([r EXCEPT !.raw = Parsed], 404, TRUE)]
            ELSE \E q \in Qualities, c \in Clients,
                    u \in (IF probe = "resolved" THEN Urls ELSE {Unquote(raw)}) :
                    th' = [th EXCEPT ![t] =
                             [r EXCEPT !.pc = "gp_lock", !.raw = Parsed, !.url = u,
                                       !.quality = q, !.client = c]]
    /\ UNCHANGED <<processes, lock, procs, now>>

\* get_process, lines 33-46: the lock is taken and the url is looked up.  A
\* live session is joined and its process returned (the lock is released); a
\* session whose process has ended is deleted and run_streamlink is called
\* with the lock held, as it is when there is no session.
GetProcess(t) ==
    /\ th[t].pc = "gp_lock"
    /\ CanLock(t)
    /\ LET u == th[t].url IN
       IF Has(processes, u)
       THEN LET e == Entry(processes, u) IN
            IF Stale(e)
            THEN /\ processes' = DictDel(processes, u)
                 /\ procs' = [procs EXCEPT ![e.process].gone = "replaced"]
                 /\ th' = [th EXCEPT ![t].pc = "gp_launch", ![t].process = e.process]
                 /\ lock' = t
            ELSE /\ processes' = DictSet(processes, Join(e, th[t].client, th[t].quality))
                 /\ \E started \in BOOLEAN :
                        th' = [th EXCEPT ![t] = Served(th[t], e.process, started)]
                 /\ UNCHANGED <<procs, lock>>
       ELSE /\ th' = [th EXCEPT ![t].pc = "gp_launch"]
            /\ lock' = t
            /\ UNCHANGED <<processes, procs>>
    /\ UNCHANGED <<now, reqs>>

\* run_streamlink, lines 48-65, and the return through get_process, which
\* releases the lock.  Popen takes time and may raise; then nothing is stored
\* and stream() answers 500 (lines 230-232).  Once MaxProcs processes have
\* been launched every further Popen raises.
RunStreamlink(t) ==
    /\ th[t].pc = "gp_launch"
    /\ lock' = 0
    /\ \E ok \in (IF Len(procs) < MaxProcs THEN BOOLEAN ELSE {FALSE}) :
       IF ok
       THEN LET p == Len(procs) + 1 IN
            /\ now' = now + 1
            /\ procs' = Append(procs, [url |-> th[t].url, end |-> "running",
                                       closed |-> FALSE, gone |-> "no",
                                       kills |-> 0, read |-> 0,
                                       started |-> now'])
            /\ processes' = DictSet(processes,
                                NewSession(th[t].url, p, th[t].quality, th[t].client, now'))
            /\ \E started \in BOOLEAN :
                   th' = [th EXCEPT ![t] = Served(th[t], p, started)]
       ELSE /\ th' = [th EXCEPT ![t] = Respond([th[t] EXCEPT !.cause = "popen"], 500, TRUE)]
            /\ UNCHANGED <<processes, procs, now>>
    /\ UNCHANGED reqs

\* remove_client, lines 67-74: what it makes of the dict d
RemoveClientReaps(d, u, c) ==
    IF Has(d, u)
    THEN IF Entry(d, u).clients \ {c} = {}
         THEN DictDel(d, u)
         ELSE DictSet(d, [Entry(d, u) EXCEPT !.clients = @ \ {c}])
    ELSE d
RemoveClient(d, u, c) ==
    IF Has(d, u)
    THEN DictSet(d, [Entry(d, u) EXCEPT !.clients = @ \ {c}])
    ELSE d

\* process.stdout.read(4096), line 203, on the pipe of pr: the next chunk is
\* taken out of the pipe
ReadPeek(pr) == pr
Read(pr) == [pr EXCEPT !.read = @ + 1]

\* generate(), lines 203-207: read returns the next chunk of the pipe, which
\* is yielded to this connection's client
GenerateRead(t) ==
    /\ th[t].pc = "pumping"
    /\ LET p == th[t].process IN
       /\ ~procs[p].closed
       /\ procs[p].read < MaxChunks
       /\ procs' = [procs EXCEPT ![p] = Read(@)]
       /\ th' = [th EXCEPT ![t].got = @ \cup {procs[p].read + 1}]
    /\ UNCHANGED <<processes, lock, now, reqs>>

\* generate(), lines 204-206: read returns no data (the process has ended): the
\* loop breaks, the generator finishes, and the response is closed, which runs
\* cleanup() (lines 221-226)
GenerateEof(t) ==
    /\ th[t].pc = "pumping"
    /\ ~Running(th[t].process)
    /\ th' = [th EXCEPT ![t] = OnClose([th[t] EXCEPT !.cause = "eof"])]
    /\ UNCHANGED <<processes, lock, procs, now, reqs>>

\* generate(), lines 208-212: the client has gone, the server closes the
\* generator at its yield (GeneratorExit), and the handler calls remove_client
GenerateExit(t) ==
    /\ th[t].pc = "pumping"
    /\ th' = [th EXCEPT ![t].pc = "gen_release", ![t].cause = "disconnect",
                        ![t].calls = @ + 1]
    /\ UNCHANGED <<processes, lock, procs, now, reqs>>

\* generate(), lines 213-217: read raises (kill_process has closed the pipe),
\* and the handler calls remove_client
GenerateError(t) ==
    /\ th[t].pc = "pumping"
    /\ procs[th[t].process].closed
    /\ th' = [th EXCEPT ![t].pc = "gen_release", ![t].cause = "error",
                        ![t].calls = @ + 1]
    /\ UNCHANGED <<processes, lock, procs, now, reqs>>

\* remove_client called from generate()'s handlers; the generator then ends and
\* the response is closed, which runs cleanup() (lines 221-226)
GenerateRemove(t) ==
    /\ th[t].pc = "gen_release"
    /\ CanLock(t)
    /\ processes' = RemoveClient(processes, th[t].url, th[t].client)
    /\ th' = [th EXCEPT ![t] = OnClose(th[t])]
    /\ UNCHANGED <<lock, procs, now, reqs>>

\* remove_client called from cleanup(), lines 221-226; the request is over
Cleanup(t) ==
    /\ th[t].pc = "on_close"
    /\ CanLock(t)
    /\ processes' = RemoveClient(processes, th[t].url, th[t].client)
    /\ th' = [th EXCEPT ![t] = Done]
    /\ UNCHANGED <<lock, procs, now, reqs>>

\* ---------------------------------------------------------------- /processes
\* manage_processes, lines 242-260 (POST) and 267-268 (GET): action is the
\* form's action field ('kill' when it is missing); whatever is not kill_all
\* goes to the 'elif url:' branch
ManageProcesses(t) ==
    /\ Arrives(t)
    /\ \E method \in {"GET", "POST"} :
       IF method = "GET"
       THEN th' = [th EXCEPT ![t] = [Fresh EXCEPT !.pc = "list", !.op = "list"]]
       ELSE \E action \in FormActions, url \in FormUrls :
            IF action = "kill_all"
            THEN th' = [th EXCEPT ![t] = [Fresh EXCEPT !.pc = "ka_enter", !.op = "kill_all"]]
            ELSE IF url # ""
            THEN th' = [th EXCEPT ![t] = [Fresh EXCEPT !.pc = "kp_call", !.op = "kill",
                                                       !.url = url, !.action = action]]
            ELSE th' = [th EXCEPT ![t] = [Fresh EXCEPT !.pc = "list", !.op = "no_url"]]
    /\ UNCHANGED <<processes, lock, procs, now>>

\* kill_process, lines 83-89: terminate(), wait(timeout=5), kill() when the
\* wait expires (timeout), then stdout.close() and stderr.close().  A process
\* that has ended since poll() was read is signalled no more.
StopNoEscalation(pr, timeout) ==
    [pr EXCEPT !.end = IF @ # "running" \/ timeout THEN @ ELSE "terminated",
               !.closed = TRUE]
Stop(pr, timeout) ==
    [pr EXCEPT !.end = IF @ # "running" THEN @
                       ELSE IF timeout THEN "killed" ELSE "terminated",
               !.closed = TRUE]

\* kill_process returns ret and its with-block releases the lock: to
\* manage_processes (lines 254-258), or to the loop of kill_all_processes
\* (lines 99-100), which calls it for the next url
KillReturn(t, ret) ==
    LET rest == IF th[t].todo = <<>> THEN <<>> ELSE Tail(th[t].todo) IN
    /\ lock' = 0
    /\ IF th[t].op = "kill_all"
       THEN IF rest # <<>>
            THEN th' = [th EXCEPT ![t].pc = "kp_call", ![t].url = Head(rest),
                                  ![t].todo = rest, ![t].process = 0]
            ELSE th' = [th EXCEPT ![t].pc = "list", ![t].url = "", ![t].todo = <<>>,
                                  ![t].process = 0]
       ELSE th' = [th EXCEPT ![t].pc = "list", ![t].ret = ret, ![t].process = 0,
                             ![t].action = ""]

\* kill_process, lines 78-82 and 93, called by thread t for th[t].url: the
\* lock is taken and the url is looked up.  When it is absent the call
\* returns False; otherwise poll() is read and the lock stays held.
KillProcess(t) ==
    /\ th[t].pc = "kp_call"
    /\ CanLock(t)
    /\ LET u == th[t].url IN
       IF Has(processes, u)
       THEN LET p == Entry(processes, u).process IN
            /\ th' = [th EXCEPT ![t].pc = IF Running(p) THEN "kp_stop" ELSE "kp_del",
                                ![t].process = p]
            /\ lock' = t
       ELSE KillReturn(t, "false")
    /\ UNCHANGED <<processes, procs, now, reqs>>

\* kill_process, lines 83-89, with the lock held: the running process is stopped
KillStop(t) ==
    /\ th[t].pc = "kp_stop"
    /\ \E timeout \in BOOLEAN :
           procs' = [procs EXCEPT ![th[t].process] = Stop(@, timeout)]
    /\ th' = [th EXCEPT ![t].pc = "kp_del"]
    /\ UNCHANGED <<processes, lock, now, reqs>>

\* kill_process, lines 91-92: the entry is deleted, the lock is released and
\* the call returns True
KillDelete(t) ==
    /\ th[t].pc = "kp_del"
    /\ processes' = DictDel(processes, th[t].url)
    /\ procs' = [procs EXCEPT ![th[t].process].gone = "kill",
                              ![th[t].process].kills = @ + 1]
    /\ KillReturn(t, "true")
    /\ UNCHANGED <<now, reqs>>

\* kill_all_processes, lines 95-100: the lock is taken, the keys are listed,
\* and kill_process is called for the first of them with the lock held
KillAllProcesses(t) ==
    /\ th[t].pc = "ka_enter"
    /\ CanLock(t)
    /\ IF processes = <<>>
       THEN /\ th' = [th EXCEPT ![t].pc = "list"]
            /\ UNCHANGED lock
       ELSE /\ th' = [th EXCEPT ![t].pc = "kp_call", ![t].todo = Keys(processes),
                                ![t].url = Head(Keys(processes))]
            /\ lock' = t
    /\ UNCHANGED <<processes, procs, now, reqs>>

\* get_process_info under the lock (lines 263 and 268); the handler then
\* builds the page from the list it was returned (the page's message is not
\* kept) and answers with it
ProcessesPage(t) ==
    /\ th[t].pc = "list"
    /\ CanLock(t)
    /\ th' = [th EXCEPT ![t] = [Respond(Fresh, 200, FALSE) EXCEPT
                                   !.op = "list", !.listing = ProcessInfo]]
    /\ UNCHANGED <<processes, lock, procs, now, reqs>>

\* the server has sent the handler's answer: the request thread ends
Return(t) ==
    /\ th[t].pc = "answer"
    /\ th' = [th EXCEPT ![t] = Done]
    /\ UNCHANGED <<processes, lock, procs, now, reqs>>

\* ---------------------------------------------------------------- environment
\* a streamlink process ends on its own
ProcExit(p) ==
    /\ p \in 1..Len(procs)
    /\ Running(p)
    /\ procs' = [procs EXCEPT ![p].end = "exited"]
    /\ UNCHANGED <<processes, lock, now, th, reqs>>

Next ==
    \/ \E t \in Threads : Stream(t)
    \/ \E t \in Threads : GetProcess(t)
    \/ \E t \in Threads : RunStreamlink(t)
    \/ \E t \in Threads : GenerateEof(t)
    \/ \E t \in Threads : GenerateExit(t)
    \/ \E t \in Threads : GenerateError(t)
    \/ \E t \in Threads : GenerateRemove(t)
    \/ \E t \in Threads : Cleanup(t)
    \/ \E t \in Threads : ManageProcesses(t)
    \/ \E t \in Threads : KillProcess(t)
    \/ \E t \in Threads : KillStop(t)
    \/ \E t \in Threads : KillDelete(t)
    \/ \E t \in Threads : KillAllProcesses(t)
    \/ \E t \in Threads : ProcessesPage(t)
    \/ \E t \in Threads : Return(t)
    \/ \E p \in 1..MaxProcs : ProcExit(p)

Spec == Init /\ [][Next]_vars

\* the same program serving MaxPumps requests, with the chunks that the
\* deliveries read from the pipes told apart
PumpNext ==
    \/ \E t \in Pumps : Stream(t)
    \/ \E t \in Pumps : GetProcess(t)
    \/ \E t \in Pumps : RunStreamlink(t)
    \/ \E t \in Pumps : GenerateRead(t)
    \/ \E t \in Pumps : GenerateEof(t)
    \/ \E t \in Pumps : GenerateExit(t)
    \/ \E t \in Pumps : GenerateError(t)
    \/ \E t \in Pumps : GenerateRemove(t)
    \/ \E t \in Pumps : Cleanup(t)
    \/ \E t \in Pumps : ManageProcesses(t)
    \/ \E t \in Pumps : KillProcess(t)
    \/ \E t \in Pumps : KillStop(t)
    \/ \E t \in Pumps : KillDelete(t)
    \/ \E t \in Pumps : KillAllProcesses(t)
    \/ \E t \in Pumps : ProcessesPage(t)
    \/ \E t \in Pumps : Return(t)
    \/ \E p \in 1..MaxProcs : ProcExit(p)

PumpSpec == Init /\ [][PumpNext]_vars

\* ---------------------------------------------------------------- properties
\* the processes launched for url u, and what has happened to its sessions
Launched(u) == {p \in 1..Len(procs) : procs[p].url = u}
Killed(u) == \E p \in Launched(u) : procs[p].gone = "kill"
Replaced(u) == \E p \in Launched(u) : procs[p].gone = "replaced"
\* the threads that get_process has returned a handle to, for url u
Holders(u) == {t \in Threads : th[t].url = u /\ th[t].pc = "pumping"}
\* the urls listed by get_process_info
Listed == {ProcessInfo[i].url : i \in 1..Len(ProcessInfo)}

\* C1 as stated: for a source that has not been killed, the concurrent callers
\* of get_process cause exactly one launch and all get the same handle.
C1_OneLaunchUnlessKilled ==
    \A u \in Urls :
        ~Killed(u) =>
            /\ Cardinality(Launched(u)) <= 1
            /\ \A t \in Holders(u) : Launched(u) = {th[t].process}

\* C1 amended: for a source that has not been killed and whose process no
\* caller has found ended, exactly one launch succeeds and every caller that
\* is returned a handle is returned that process.
C1_OneLaunchWhileAlive ==
    \A u \in Urls :
        (~Killed(u) /\ ~Replaced(u)) =>
            /\ Cardinality(Launched(u)) <= 1
            /\ \A t \in Holders(u) : Launched(u) = {th[t].process}

\* three requests for the same new source all hold the one process launched
C1_Witness ==
    /\ Len(procs) = 1
    /\ ~Killed("A") /\ ~Replaced("A")
    /\ Holders("A") = Threads
    /\ \A t \in Threads : th[t].process = 1

\* C2: each source has at most one registry entry, and at most one of the
\* processes launched for it is alive.
C2_OneSessionPerSource ==
    \A u \in Urls :
        /\ Cardinality({i \in 1..Len(processes) : processes[i].url = u}) <= 1
        /\ Cardinality({p \in Launched(u) : Running(p)}) <= 1

\* a source on its second process: the first has ended, the second runs
C2_Witness ==
    \E u \in Urls :
        /\ Cardinality(Launched(u)) = 2
        /\ Cardinality({p \in Launched(u) : Running(p)}) = 1
        /\ Has(processes, u)

\* C3 as stated: kill_all_processes goes on to return: having taken the lock
\* and listed n >= 0 keys, its call of kill_process can proceed.
C3_KillAllGoesOn ==
    \A t \in Threads :
        (th[t].op = "kill_all" /\ th[t].pc = "kp_call") => ENABLED KillProcess(t)

\* C4: kill_process for an absent url returns False and changes neither the
\* registry nor any process; for a present url it returns True and the url is
\* no longer listed; and a url comes to be registered only by run_streamlink
\* called from a get_process for it.
C4_Kill ==
    /\ [][\A t \in Threads :
            (th[t].op = "kill" /\ th[t].pc = "kp_call" /\ th'[t].pc # "kp_call") =>
                IF Has(processes, th[t].url)
                THEN th'[t].pc \in {"kp_stop", "kp_del"} /\ UNCHANGED <<processes, procs>>
                ELSE /\ th'[t].pc = "list" /\ th'[t].ret = "false"
                     /\ UNCHANGED <<processes, procs>>]_vars
    /\ [][\A t \in Threads :
            (th[t].op = "kill" /\ th[t].pc = "kp_del" /\ th'[t].pc # "kp_del") =>
                th'[t].pc = "list" /\ th'[t].ret = "true" /\ th[t].url \notin Listed']_vars
    /\ [][\A u \in Urls :
            (u \notin Listed /\ u \in Listed') =>
                \E t \in Threads : th[t].pc = "gp_launch" /\ th[t].url = u]_vars

\* a kill has returned True, its process is dead, and nothing is listed
C4_Witness ==
    \E t \in Threads :
        /\ th[t].pc = "list" /\ th[t].ret = "true"
        /\ Listed = {}
        /\ \E p \in 1..Len(procs) : procs[p].gone = "kill" /\ procs[p].end = "terminated"

\* C5: remove_client takes exactly the caller's client out of the client set
\* of the session of its url, if there is one, and changes nothing else: not
\* the keys, not another field or session, not any process.
C5_ReleaseClient ==
    [][\A t \in Threads :
        (th[t].pc \in {"gen_release", "on_close"} /\ th'[t].pc # th[t].pc) =>
            /\ procs' = procs
            /\ Len(processes') = Len(processes)
            /\ \A i \in 1..Len(processes) :
                  processes'[i] =
                      IF processes[i].url = th[t].url
                      THEN [processes[i] EXCEPT !.clients = @ \ {th[t].client}]
                      ELSE processes[i]]_vars

\* a client has been released from a session that keeps another client and a
\* running process, next to another session
C5_Witness ==
    \E t \in Threads :
        /\ th[t].pc = "on_close" /\ th[t].calls = 2
        /\ Has(processes, th[t].url)
        /\ th[t].client \notin Entry(processes, th[t].url).clients
        /\ Entry(processes, th[t].url).clients # {}
        /\ Running(Entry(processes, th[t].url).process)
        /\ Len(processes) = 2

\* C6: a get_process that finds the session of its url with an ended process
\* deletes it and calls run_streamlink; when that launch succeeds the caller
\* is answered 200 with the new handle, and the new session started strictly
\* later than the deleted one and has the caller as its only client.
C6_StaleReplaced ==
    /\ [][\A t \in Threads :
            (/\ th[t].pc = "gp_lock" /\ th'[t].pc # "gp_lock"
             /\ Has(processes, th[t].url)
             /\ ~Running(Entry(processes, th[t].url).process)) =>
                /\ ~Has(processes', th[t].url)
                /\ th'[t].pc = "gp_launch"
                /\ th'[t].process = Entry(processes, th[t].url).process]_vars
    /\ [][\A t \in Threads :
            (th[t].pc = "gp_launch" /\ th[t].process # 0 /\ th'[t].pc = "pumping") =>
                /\ th'[t].status = 200
                /\ th'[t].process \notin 1..Len(procs)
                /\ Has(processes', th[t].url)
                /\ Entry(processes', th[t].url).process = th'[t].process
                /\ Entry(processes', th[t].url).start_time > procs[th[t].process].started
                /\ Entry(processes', th[t].url).clients = {th[t].client}]_vars

\* a caller holds the second process of a source whose first one was found ended
C6_Witness ==
    \E t \in Threads :
        /\ th[t].pc = "pumping" /\ th[t].process = 2
        /\ procs[1].gone = "replaced" /\ procs[1].url = th[t].url
        /\ Entry(processes, th[t].url).clients = {th[t].client}

\* C7: a get_process that finds the session of its url with a running process
\* launches nothing, returns that process, and changes the registry only by
\* adding the caller to that session's clients.
C7_JoinLive ==
    [][\A t \in Threads :
        (/\ th[t].pc = "gp_lock" /\ th'[t].pc # "gp_lock"
         /\ Has(processes, th[t].url)
         /\ Running(Entry(processes, th[t].url).process)) =>
            /\ procs' = procs
            /\ th'[t].pc \in {"pumping", "on_close"}
            /\ th'[t].pc = "pumping" => th'[t].process = Entry(processes, th[t].url).process
            /\ Len(processes') = Len(processes)
            /\ \A i \in 1..Len(processes) :
                  processes'[i] =
                      IF processes[i].url = th[t].url
                      THEN [processes[i] EXCEPT !.clients = @ \cup {th[t].client}]
                      ELSE processes[i]]_vars

\* two callers hold the one running process of a session with both clients
C7_Witness ==
    \E t1, t2 \in Threads :
        /\ t1 # t2
        /\ th[t1].pc = "pumping" /\ th[t2].pc = "pumping"
        /\ th[t1].url = th[t2].url /\ th[t1].process = th[t2].process
        /\ Running(th[t1].process)
        /\ Len(procs) = 1
        /\ Entry(processes, th[t1].url).clients = Clients
        /\ Entry(processes, th[t1].url).quality = "best"

\* C8: when Popen raises in run_streamlink the caller is answered 500, the
\* url has no entry, the lock is free and no process was made; and a
\* get_process that finds no entry for its url calls run_streamlink.
C8_LaunchFails ==
    /\ [][\A t \in Threads :
            (th[t].pc = "gp_launch" /\ th'[t].pc = "answer") =>
                /\ th'[t].status = 500 /\ th'[t].json
                /\ ~Has(processes', th[t].url)
                /\ lock' = 0
                /\ procs' = procs]_vars
    /\ [][\A t \in Threads :
            (/\ th[t].pc = "gp_lock" /\ th'[t].pc # "gp_lock"
             /\ ~Has(processes, th[t].url)) =>
                th'[t].pc = "gp_launch" /\ lock' = t]_vars

\* a launch has failed on the stale-session path and a later request for the
\* same url is in run_streamlink again
C8_Witness ==
    \E t1, t2 \in Threads :
        /\ th[t1].pc = "answer" /\ th[t1].status = 500 /\ th[t1].cause = "popen"
        /\ th[t2].pc = "gp_launch" /\ th[t2].process = 0
        /\ \E p \in 1..Len(procs) : procs[p].gone = "replaced" /\ procs[p].url = th[t2].url
        /\ ~Has(processes, th[t2].url)

\* C9 as stated: a /stream request with a missing or empty url is answered
\* 400 with a JSON body.
C9_BadUrl400 ==
    \A t \in Threads :
        (th[t].pc = "answer" /\ th[t].op = "stream" /\ th[t].raw \in {NoParam, ""}) =>
            th[t].status = 400 /\ th[t].json

\* C10 as stated: a delivery that ended by disconnect or error has called
\* remove_client exactly once when its last call has been made.
C10_ReleasedOnce ==
    \A t \in Threads :
        (th[t].pc = "on_close" /\ th[t].cause \in {"disconnect", "error"}) =>
            th[t].calls = 1

\* C10 amended: a delivery that ends by disconnect or error calls remove_client
\* twice, from generate()'s handler and then from cleanup(); one closed before
\* its loop started, or ended by end of stream, calls it once, from cleanup();
\* and no step of a delivery changes any process.
C10_ReleasedTwice ==
    /\ [](\A t \in Threads :
            /\ th[t].pc = "gen_release" =>
                  th[t].calls = 1 /\ th[t].cause \in {"disconnect", "error"}
            /\ th[t].pc = "on_close" =>
                  th[t].calls = (IF th[t].cause \in {"disconnect", "error"} THEN 2 ELSE 1))
    /\ [][\A t \in Threads :
            (th[t].pc \in {"pumping", "gen_release", "on_close"} /\ th'[t] # th[t]) =>
                procs' = procs]_vars

\* a delivery ended by a disconnect has released its client and is in
\* cleanup(), and the process of its session still runs
C10_Witness ==
    \E t \in Threads :
        /\ th[t].pc = "on_close" /\ th[t].cause = "disconnect" /\ th[t].calls = 2
        /\ Has(processes, th[t].url)
        /\ Running(Entry(processes, th[t].url).process)

\* the thread that holds the lock can take the step that follows in its code
HolderRuns(t) ==
    ENABLED (RunStreamlink(t) \/ KillProcess(t) \/ KillStop(t) \/ KillDelete(t))

\* C11: a delivery that has ended (end of data, disconnect, read error, or
\* closed unstarted) while its client is still in the client set of the session
\* of its url gets to run remove_client: the lock is free, or the thread
\* holding it can go on to release it.
C11_ClientReleased ==
    \A t \in Threads :
        ( /\ th[t].pc \in {"gen_release", "on_close"}
          /\ Has(processes, th[t].url)
          /\ th[t].client \in Entry(processes, th[t].url).clients ) =>
            \/ ENABLED (GenerateRemove(t) \/ Cleanup(t))
            \/ \E s \in Threads : lock = s /\ HolderRuns(s)

\* C12: whenever the lock is held, the thread holding it can take its next
\* step, so that it returns and the lock is released.
C12_LockReleased ==
    \A t \in Threads : lock = t => HolderRuns(t)

\* thread t's delivery is, or was, attached to the session now registered for its url
Attached(t) ==
    /\ Has(processes, th[t].url)
    /\ Entry(processes, th[t].url).process = th[t].process

\* C13: every connection whose generate() loop is reading from the process of
\* the session registered for its url has its client in that session's
\* client set.
C13_PumpingIsMember ==
    \A t \in Threads :
        (th[t].pc = "pumping" /\ Attached(t)) =>
            th[t].client \in Entry(processes, th[t].url).clients

\* C14: the remove_client of a delivery that was attached to a session since
\* killed or replaced changes nothing in the session that is registered for
\* the same url now.
C14_LateCleanupHarmless ==
    [][\A t \in Threads :
        ( /\ th[t].pc \in {"gen_release", "on_close"}
          /\ th'[t].pc # th[t].pc
          /\ Has(processes, th[t].url)
          /\ ~Attached(t) ) =>
            processes' = processes]_vars

\* C15: once the entry of a process has been taken out of the registry (by
\* kill_process, or by get_process that found the process ended), the
\* process's output pipe has been closed.
C15_ClosedWhenGone ==
    \A p \in 1..Len(procs) : procs[p].gone # "no" => procs[p].closed

\* C16: kill_process stops a running process whether or not wait(timeout=5)
\* expires (when it does, by kill()), and closes its pipe; after a forced
\* kill it still deletes the entry and returns True to manage_processes; and
\* a process whose kill_process has returned True is not alive.
C16_KillEscalates ==
    /\ [](\A p \in 1..Len(procs) : procs[p].gone = "kill" => ~Running(p))
    /\ [][\A t \in Threads :
            (th[t].pc = "kp_stop" /\ th'[t].pc # "kp_stop") =>
                LET p == th[t].process IN
                /\ th'[t].pc = "kp_del"
                /\ procs'[p].closed
                /\ procs'[p].end \in
                       (IF Running(p) THEN {"terminated", "killed"} ELSE {procs[p].end})]_vars
    /\ [][\A t \in Threads :
            ( /\ th[t].op = "kill" /\ th[t].pc = "kp_del" /\ th'[t].pc # "kp_del"
              /\ procs[th[t].process].end = "killed" ) =>
                /\ th'[t].pc = "list" /\ th'[t].ret = "true"
                /\ ~Has(processes', th[t].url)
                /\ procs'[th[t].process].gone = "kill"]_vars

\* a kill has returned True for a session whose process had to be kill()ed
C16_Witness ==
    \E t \in Threads :
        /\ th[t].op = "kill" /\ th[t].pc = "list" /\ th[t].ret = "true"
        /\ ~Has(processes, th[t].url)
        /\ \E p \in 1..Len(procs) :
               /\ procs[p].url = th[t].url
               /\ procs[p].end = "killed" /\ procs[p].gone = "kill" /\ procs[p].closed

\* C17: the teardown of kill_process is atomic.  No session is torn down by
\* more than one kill_process call that returns True; at most one thread is
\* inside a teardown, and it holds the lock; and an entry whose process has
\* its pipe closed is in the registry only while that thread holds the lock
\* on its way to deleting it, so that no other thread can look at it.
C17_KillAtomic ==
    /\ \A p \in 1..Len(procs) : procs[p].kills <= 1
    /\ \A t \in Threads : th[t].pc \in {"kp_stop", "kp_del"} => lock = t
    /\ \A i \in 1..Len(processes) :
           procs[processes[i].process].closed =>
               \E t \in Threads :
                   /\ lock = t /\ th[t].pc = "kp_del"
                   /\ th[t].process = processes[i].process

\* two kills of the same url, whose session has had one process, have both
\* returned: one True, the other False
C17_Witness ==
    \E t1, t2 \in Threads :
        /\ th[t1].op = "kill" /\ th[t1].pc = "list" /\ th[t1].ret = "true"
        /\ th[t2].op = "kill" /\ th[t2].pc = "list" /\ th[t2].ret = "false"
        /\ th[t1].url = th[t2].url
        /\ Len(procs) = 1 /\ procs[1].url = th[t1].url
        /\ procs[1].kills = 1 /\ procs[1].closed

\* C18: an entry leaves the registry only in the delete step of a
\* kill_process for its url, or in a get_process for its url that finds its
\* process ended; and a running process stops running only by exiting on its
\* own or in the stop step of a kill_process for it.  A session with no
\* client, or with an ended process, is otherwise left where it is.
C18_LeavesOnlyByKillOrStale ==
    /\ [][\A i \in 1..Len(processes) :
            LET e == processes[i] IN
            (~Has(processes', e.url) \/ Entry(processes', e.url).process # e.process) =>
                \E t \in Threads :
                    /\ th[t].url = e.url
                    /\ \/ th[t].pc = "kp_del" /\ lock = t
                       \/ /\ th[t].pc = "gp_lock" /\ th'[t].pc = "gp_launch"
                          /\ ~Running(e.process)]_vars
    /\ [][\A p \in 1..Len(procs) :
            (Running(p) /\ procs'[p].end # "running") =>
                \/ procs'[p].end = "exited"
                \/ \E t \in Threads : th[t].pc = "kp_stop" /\ th[t].process = p]_vars

\* with every request over, a session without clients is registered with its
\* process running, and so is a session whose process has exited
C18_Witness ==
    /\ \A t \in Threads : th[t].pc = "done"
    /\ \E i, j \in 1..Len(processes) :
           /\ processes[i].clients = {} /\ Running(processes[i].process)
           /\ procs[processes[j].process].end = "exited"

\* C19: the chunks yielded to a connection were read from the pipe of its
\* process, and two connections attached to the same process have been
\* yielded no chunk in common.
C19_ChunksDisjoint ==
    \A t1, t2 \in Threads :
        /\ th[t1].got # {} => th[t1].got \subseteq 1..procs[th[t1].process].read
        /\ (t1 # t2 /\ th[t1].process = th[t2].process) => th[t1].got \cap th[t2].got = {}

\* two connections are reading from the same process: one has been yielded
\* the first chunk of its pipe and the other the second
C19_Witness ==
    \E t1, t2 \in Threads :
        /\ t1 # t2
        /\ th[t1].pc = "pumping" /\ th[t2].pc = "pumping"
        /\ th[t1].process = th[t2].process
        /\ th[t1].got = {1} /\ th[t2].got = {2}

\* C20: the list returned by get_process_info has one row per entry of the
\* registry as it is when the call runs, in the registry's order, each with
\* the entry's url, quality, clients, start time and whether its process is
\* running then; and the list a handler has been returned stays as it was
\* returned while other threads go on changing the registry.
C20_ListIsSnapshot ==
    /\ [][\A t \in Threads :
            (th[t].pc = "list" /\ th'[t].pc # "list") =>
                LET l == th'[t].listing IN
                /\ lock = 0
                /\ UNCHANGED <<processes, procs>>
                /\ Len(l) = Len(processes)
                /\ \A i \in 1..Len(processes) :
                       /\ l[i].url = processes[i].url
                       /\ l[i].quality = processes[i].quality
                       /\ l[i].clients =
                              {[ip |-> c[1], user_agent |-> c[2]] : c \in processes[i].clients}
                       /\ l[i].running = (procs[processes[i].process].end = "running")
                       /\ l[i].start_time = <<"iso", processes[i].start_time>>]_vars
    /\ [][\A t \in Threads :
            (th[t].pc = "answer" /\ th'[t].pc = "answer") =>
                th'[t].listing = th[t].listing]_vars

\* a handler holds the list it was returned, with a row that says running and
\* has one client, while the registry has since lost that session
C20_Witness ==
    \E t \in Threads :
        /\ th[t].pc = "answer" /\ th[t].op = "list"
        /\ Len(th[t].listing) = 1
        /\ th[t].listing[1].running
        /\ Cardinality(th[t].listing[1].clients) = 1
        /\ processes = <<>>

\* C21: a POST /processes whose action is neither kill nor kill_all, or that
\* has no url to kill, leaves the registry as it is in every step of its
\* handler; one with action kill and a url leaves every other url's entry as
\* it is.
C21_PostAsFieldsSay ==
    [][\A t \in Threads :
        th'[t] # th[t] =>
            /\ (th[t].op = "no_url" \/ th[t].action = "other") => processes' = processes
            /\ (th[t].op = "kill" /\ th[t].action = "kill") =>
                   \A u \in Urls \ {th[t].url} :
                       /\ Has(processes', u) = Has(processes, u)
                       /\ Has(processes, u) => Entry(processes', u) = Entry(processes, u)]_vars


====
